---- MODULE Spec2Model ----
(***************************************************************************)
(* Model of fplus/show.hpp (FunctionalPlus): the "show" family of pure     *)
(* rendering functions.  A std::string is a sequence of one-character      *)
(* strings.  Every function of the header is one action: a call is drawn   *)
(* (function and arguments) in Init, the action of that function computes  *)
(* the returned string into out.                                           *)
(***************************************************************************)
EXTENDS Integers, Sequences, FiniteSets, TLC

VARIABLES pc, op, args, out

vars == <<pc, op, args, out>>

(***************************************************************************)
(* Bounds of the explored inputs.                                          *)
(***************************************************************************)
MaxLen == 4          \* longest container with arbitrary elements
MaxElem == 3         \* container elements are 1..MaxElem
MaxEveryN == 3       \* new_line_every_nth_elem ranges over 0..MaxEveryN
MaxWidth == 5        \* min_size of the padded formatters
MaxLeft == 4         \* min_left_chars of show_float
MaxRight == 3        \* right_char_count of show_float
InDigits == 2        \* decimal digits carried by an input floating value
MaxNum == 1000       \* floating magnitudes are 0..MaxNum units of 10^-InDigits
MaxInt == 120        \* integers shown are -MaxInt..MaxInt

(***************************************************************************)
(* Helpers on strings and numbers.                                         *)
(***************************************************************************)
RECURSIVE Pow10(_)
Pow10(n) == IF n = 0 THEN 1 ELSE 10 * Pow10(n - 1)

\* std::string(n, c)
Replicate(n, c) == [k \in 1..n |-> c]

DigitChar(d) == <<"0", "1", "2", "3", "4", "5", "6", "7", "8", "9">>[d + 1]

\* operator<< of an unsigned magnitude: decimal digits, no leading zero
RECURSIVE NatDigits(_)
NatDigits(n) ==
    IF n < 10 THEN <<DigitChar(n)>>
    ELSE Append(NatDigits(n \div 10), DigitChar(n % 10))

\* n written with exactly w digits (leading zeros), n < 10^w
RECURSIVE FixedWidthDigits(_, _)
FixedWidthDigits(n, w) ==
    IF w = 0 THEN <<>>
    ELSE Append(FixedWidthDigits(n \div 10, w - 1), DigitChar(n % 10))

\* show(const T& x) for an integer T: ss << x
show(x) == IF x < 0 THEN <<"-">> \o NatDigits(0 - x) ELSE NatDigits(x)

\* join(separator, strs) of container_common.hpp
RECURSIVE join(_, _)
join(separator, strs) ==
    IF Len(strs) = 0 THEN <<>>
    ELSE IF Len(strs) = 1 THEN strs[1]
    ELSE strs[1] \o separator \o join(separator, Tail(strs))

\* fill_left(filler, min_size, xs) of container_common.hpp
fill_left(filler, min_size, xs) ==
    IF min_size <= Len(xs) THEN xs
    ELSE Replicate(min_size - Len(xs), filler) \o xs

\* fill_right(filler, min_size, xs) of container_common.hpp
fill_right(filler, min_size, xs) ==
    IF min_size <= Len(xs) THEN xs
    ELSE xs \o Replicate(min_size - Len(xs), filler)

(***************************************************************************)
(* Container renderers.                                                    *)
(***************************************************************************)
\* the loop breaking the line after every n-th element instead of before it
RECURSIVE ElemStrsLoop_OffByOne(_, _, _, _, _)
ElemStrsLoop_OffByOne(xs, i, new_line_every_nth_elem, newline, elemStrs) ==
    IF i = Len(xs) THEN elemStrs
    ELSE ElemStrsLoop_OffByOne(xs, i + 1, new_line_every_nth_elem, newline,
            Append(elemStrs,
                IF i # 0 /\ (i + 1) % new_line_every_nth_elem = 0
                THEN newline \o show(xs[i + 1])
                ELSE show(xs[i + 1])))

\* the loop without the "i &&" test: the first element starts a new line too
RECURSIVE ElemStrsLoop_NoFirstGuard(_, _, _, _, _)
ElemStrsLoop_NoFirstGuard(xs, i, new_line_every_nth_elem, newline, elemStrs) ==
    IF i = Len(xs) THEN elemStrs
    ELSE ElemStrsLoop_NoFirstGuard(xs, i + 1, new_line_every_nth_elem,
            newline,
            Append(elemStrs,
                IF i % new_line_every_nth_elem = 0
                THEN newline \o show(xs[i + 1])
                ELSE show(xs[i + 1])))

\* the loop of the else branch: i counts the elements already pushed
RECURSIVE ElemStrsLoop(_, _, _, _, _)
ElemStrsLoop(xs, i, new_line_every_nth_elem, newline, elemStrs) ==
    IF i = Len(xs) THEN elemStrs
    ELSE ElemStrsLoop(xs, i + 1, new_line_every_nth_elem, newline,
            Append(elemStrs,
                IF i # 0 /\ i % new_line_every_nth_elem = 0
                THEN newline \o show(xs[i + 1])
                ELSE show(xs[i + 1])))

\* the renderer with a newline that carries no indentation
show_cont_with_frame_and_newlines_NoIndent(separator, prefix, suffix, xs, new_line_every_nth_elem) ==
    LET newline == <<"\n">>
        elemStrs ==
            IF new_line_every_nth_elem = 0
            THEN [k \in 1..Len(xs) |-> show(xs[k])]
            ELSE ElemStrsLoop(xs, 0, new_line_every_nth_elem, newline, <<>>)
    IN  prefix \o join(separator, elemStrs) \o suffix

show_cont_with_frame_and_newlines(separator, prefix, suffix, xs, new_line_every_nth_elem) ==
    LET newline == <<"\n">> \o Replicate(Len(prefix), " ")
        elemStrs ==
            IF new_line_every_nth_elem = 0
            THEN [k \in 1..Len(xs) |-> show(xs[k])]
            ELSE ElemStrsLoop(xs, 0, new_line_every_nth_elem, newline, <<>>)
    IN  prefix \o join(separator, elemStrs) \o suffix

show_cont_with_frame(separator, prefix, suffix, xs) ==
    show_cont_with_frame_and_newlines(separator, prefix, suffix, xs, 0)

show_cont_with(separator, xs) ==
    show_cont_with_frame(separator, <<"[">>, <<"]">>, xs)

show_cont(xs) == show_cont_with(<<",", " ">>, xs)

(***************************************************************************)
(* Sum types (maybe.hpp, result.hpp): a tag and the payload it carries.    *)
(***************************************************************************)
Nothing == [tag |-> "nothing"]
Just(v) == [tag |-> "just", value |-> v]
Ok(v) == [tag |-> "ok", value |-> v]
Error(e) == [tag |-> "error", value |-> e]

is_nothing(maybe) == maybe.tag = "nothing"
unsafe_get_just(maybe) == maybe.value
is_error(result) == result.tag = "error"
unsafe_get_ok(result) == result.value
unsafe_get_error(result) == result.value

show_maybe(maybe) ==
    IF is_nothing(maybe)
    THEN <<"N", "o", "t", "h", "i", "n", "g">>
    ELSE <<"J", "u", "s", "t", " ">> \o show(unsafe_get_just(maybe))

\* show_result taking a negative payload for an error
show_result_FromPayload(result) ==
    IF is_error(result) \/ result.value < 0
    THEN <<"E", "r", "r", "o", "r", " ">> \o show(unsafe_get_error(result))
    ELSE <<"O", "k", " ">> \o show(unsafe_get_ok(result))

show_result(result) ==
    IF is_error(result)
    THEN <<"E", "r", "r", "o", "r", " ">> \o show(unsafe_get_error(result))
    ELSE <<"O", "k", " ">> \o show(unsafe_get_ok(result))

(***************************************************************************)
(* Floating values.  A finite value is a sign bit and a magnitude          *)
(* num / Den; the sign bit with num = 0 is negative zero.  half_up tells   *)
(* which way the stream rounds the value when its decimal expansion lies   *)
(* exactly halfway at the requested precision (the binary value nearest to *)
(* a decimal may lie on either side, and an exact tie follows the          *)
(* platform's rule).                                                       *)
(***************************************************************************)
Den == Pow10(InDigits)

\* x < 0
LessThanZero(x) == x.neg /\ x.num > 0

\* std::abs(x)
Abs(x) == [x EXCEPT !.neg = FALSE]

\* stream << std::fixed << std::setprecision(p) << x; stream.str()
FixedText(x, p) ==
    LET scaled == x.num * Pow10(p)
        q == scaled \div Den
        r == scaled % Den
        rounded == q + (IF 2 * r > Den \/ (2 * r = Den /\ x.half_up)
                        THEN 1 ELSE 0)
        whole == rounded \div Pow10(p)
        frac == rounded % Pow10(p)
    IN  (IF x.neg THEN <<"-">> ELSE <<>>)
        \o NatDigits(whole)
        \o (IF p > 0 THEN <<".">> \o FixedWidthDigits(frac, p) ELSE <<>>)

\* show_float reducing the width for every value, negative or not
show_float_AlwaysReduce(min_left_chars, right_char_count, x) ==
    LET is_negative == LessThanZero(x)
        min_left_chars_final ==
            IF min_left_chars > 0 THEN min_left_chars - 1 ELSE min_left_chars
        s == FixedText(Abs(x), right_char_count)
        min_dest_length == min_left_chars_final + 1 + right_char_count
        result == fill_left("0", min_dest_length, s)
    IN  IF is_negative THEN <<"-">> \o result ELSE result

\* show_float never reducing the width
show_float_NoReduce(min_left_chars, right_char_count, x) ==
    LET is_negative == LessThanZero(x)
        s == FixedText(Abs(x), right_char_count)
        min_dest_length == min_left_chars + 1 + right_char_count
        result == fill_left("0", min_dest_length, s)
    IN  IF is_negative THEN <<"-">> \o result ELSE result

\* show_float deciding the sign from the rounded digits
show_float_SignAfterRounding(min_left_chars, right_char_count, x) ==
    LET s == FixedText(Abs(x), right_char_count)
        is_negative ==
            LessThanZero(x)
            /\ \E k \in 1..Len(s) : s[k] \notin {"0", "."}
        min_left_chars_final ==
            IF is_negative /\ min_left_chars > 0
            THEN min_left_chars - 1
            ELSE min_left_chars
        min_dest_length == min_left_chars_final + 1 + right_char_count
        result == fill_left("0", min_dest_length, s)
    IN  IF is_negative THEN <<"-">> \o result ELSE result

show_float(min_left_chars, right_char_count, x) ==
    LET is_negative == LessThanZero(x)
        min_left_chars_final ==
            IF is_negative /\ min_left_chars > 0
            THEN min_left_chars - 1
            ELSE min_left_chars
        s == FixedText(Abs(x), right_char_count)
        min_dest_length == min_left_chars_final + 1 + right_char_count
        result == fill_left("0", min_dest_length, s)
    IN  IF is_negative THEN <<"-">> \o result ELSE result

\* show_float_fill_left handing min_size to show_float as well
show_float_fill_left_ZeroPad(filler, min_size, right_char_count, x) ==
    fill_left(filler, min_size, show_float(min_size, right_char_count, x))

show_float_fill_left(filler, min_size, right_char_count, x) ==
    fill_left(filler, min_size, show_float(0, right_char_count, x))

\* show_fill_left padding on the wrong side
show_fill_left_WrongSide(filler, min_size, x) ==
    fill_right(filler, min_size, show(x))

show_fill_left(filler, min_size, x) == fill_left(filler, min_size, show(x))

show_fill_right(filler, min_size, x) == fill_right(filler, min_size, show(x))

(***************************************************************************)
(* Inputs.                                                                 *)
(***************************************************************************)
Separators == {<<>>, <<",">>, <<",", " ">>}
Frames == {<< <<>>, <<>> >>, << <<"(">>, <<")">> >>,
           << <<"[", "[">>, <<"]">> >>}
DocXs == <<1, 2, 3, 4, 5>>
Containers == UNION {[1..n -> 1..MaxElem] : n \in 0..MaxLen} \cup {DocXs}
Fillers == {" ", "0", "*"}
Ints == (0 - MaxInt)..MaxInt
Floats == {[neg |-> s, num |-> n, half_up |-> h] :
              s \in BOOLEAN, n \in 0..MaxNum, h \in BOOLEAN}
Maybes == {Nothing} \cup {Just(v) : v \in Ints}
Results == {Ok(v) : v \in Ints} \cup {Error(e) : e \in Ints}

CallOf(f, a) == op = f /\ args = a

Init ==
    /\ pc = "call"
    /\ out = <<>>
    /\ \/ \E sep \in Separators, fr \in Frames, xs \in Containers,
             n \in 0..MaxEveryN :
               CallOf("show_cont_with_frame_and_newlines",
                      [separator |-> sep, prefix |-> fr[1], suffix |-> fr[2],
                       xs |-> xs, every_n |-> n])
       \/ \E sep \in Separators, fr \in Frames, xs \in Containers :
               CallOf("show_cont_with_frame",
                      [separator |-> sep, prefix |-> fr[1], suffix |-> fr[2],
                       xs |-> xs])
       \/ \E sep \in Separators, xs \in Containers :
               CallOf("show_cont_with", [separator |-> sep, xs |-> xs])
       \/ \E xs \in Containers : CallOf("show_cont", [xs |-> xs])
       \/ \E m \in Maybes : CallOf("show_maybe", [maybe |-> m])
       \/ \E r \in Results : CallOf("show_result", [result |-> r])
       \/ \E m \in 0..MaxLeft, p \in 0..MaxRight, x \in Floats :
               CallOf("show_float",
                      [min_left_chars |-> m, right_char_count |-> p, x |-> x])
       \/ \E f \in Fillers, w \in 0..MaxWidth, p \in 0..MaxRight,
             x \in Floats :
               CallOf("show_float_fill_left",
                      [filler |-> f, min_size |-> w, right_char_count |-> p,
                       x |-> x])
       \/ \E f \in Fillers, w \in 0..MaxWidth, x \in Ints :
               CallOf("show_fill_left",
                      [filler |-> f, min_size |-> w, x |-> x])
       \/ \E f \in Fillers, w \in 0..MaxWidth, x \in Ints :
               CallOf("show_fill_right",
                      [filler |-> f, min_size |-> w, x |-> x])

Return(result) ==
    /\ out' = result
    /\ pc' = "done"
    /\ UNCHANGED <<op, args>>

ShowContWithFrameAndNewlines ==
    /\ pc = "call" /\ op = "show_cont_with_frame_and_newlines"
    /\ Return(show_cont_with_frame_and_newlines(args.separator, args.prefix,
                args.suffix, args.xs, args.every_n))

ShowContWithFrame ==
    /\ pc = "call" /\ op = "show_cont_with_frame"
    /\ Return(show_cont_with_frame(args.separator, args.prefix, args.suffix,
                args.xs))

ShowContWith ==
    /\ pc = "call" /\ op = "show_cont_with"
    /\ Return(show_cont_with(args.separator, args.xs))

ShowCont ==
    /\ pc = "call" /\ op = "show_cont"
    /\ Return(show_cont(args.xs))

ShowMaybe ==
    /\ pc = "call" /\ op = "show_maybe"
    /\ Return(show_maybe(args.maybe))

ShowResult ==
    /\ pc = "call" /\ op = "show_result"
    /\ Return(show_result(args.result))

ShowFloat ==
    /\ pc = "call" /\ op = "show_float"
    /\ Return(show_float(args.min_left_chars, args.right_char_count, args.x))

ShowFloatFillLeft ==
    /\ pc = "call" /\ op = "show_float_fill_left"
    /\ Return(show_float_fill_left(args.filler, args.min_size,
                args.right_char_count, args.x))

ShowFillLeft ==
    /\ pc = "call" /\ op = "show_fill_left"
    /\ Return(show_fill_left(args.filler, args.min_size, args.x))

ShowFillRight ==
    /\ pc = "call" /\ op = "show_fill_right"
    /\ Return(show_fill_right(args.filler, args.min_size, args.x))

Next ==
    \/ ShowContWithFrameAndNewlines
    \/ ShowContWithFrame
    \/ ShowContWith
    \/ ShowCont
    \/ ShowMaybe
    \/ ShowResult
    \/ ShowFloat
    \/ ShowFloatFillLeft
    \/ ShowFillLeft
    \/ ShowFillRight

Spec == Init /\ [][Next]_vars

(***************************************************************************)
(* Properties.                                                             *)
(***************************************************************************)
Done(f) == pc = "done" /\ op = f

Max(a, b) == IF a >= b THEN a ELSE b

IsDigit(c) == c \in {"0", "1", "2", "3", "4", "5", "6", "7", "8", "9"}

Contains(s, c) == \E k \in 1..Len(s) : s[k] = c

\* the frame a container call renders with
FrameFamily == {"show_cont_with_frame_and_newlines", "show_cont_with_frame",
                "show_cont_with", "show_cont"}
PrefixOfCall ==
    IF op \in {"show_cont_with", "show_cont"} THEN <<"[">> ELSE args.prefix
SuffixOfCall ==
    IF op \in {"show_cont_with", "show_cont"} THEN <<"]">> ELSE args.suffix

\* prefix and the first k elements, built left to right: before element k
\* (0-based index k - 1) comes the separator and then, when the index is a
\* multiple of every_n, a newline and Len(prefix) spaces
RECURSIVE FramedUpTo(_, _)
FramedUpTo(a, k) ==
    IF k = 0 THEN a.prefix
    ELSE IF k = 1 THEN a.prefix \o show(a.xs[1])
    ELSE FramedUpTo(a, k - 1)
         \o a.separator
         \o (IF (k - 1) % a.every_n = 0
             THEN <<"\n">> \o [j \in 1..Len(a.prefix) |-> " "]
             ELSE <<>>)
         \o show(a.xs[k])

DocCall ==
    /\ Done("show_cont_with_frame_and_newlines")
    /\ args = [separator |-> <<",">>, prefix |-> <<"(">>, suffix |-> <<")">>,
               xs |-> DocXs, every_n |-> 2]

C6_Theorem ==
    (pc = "done" /\ op \in FrameFamily) =>
        /\ Len(args.xs) = 0 => out = PrefixOfCall \o SuffixOfCall
        /\ Len(args.xs) = 1 =>
               out = PrefixOfCall \o show(args.xs[1]) \o SuffixOfCall

C6_Witness ==
    /\ Done("show_cont_with_frame_and_newlines")
    /\ Len(args.xs) = 1
    /\ args.every_n = 1
    /\ args.separator # <<>>
    /\ args.prefix # <<>>
    /\ ~Contains(out, "\n")

\* C7: show_fill_left and show_fill_right return a text of length
\* max(width, length(show(x))): show(x) itself when it is at least width
\* long, otherwise show(x) preceded (left) or followed (right) by exactly
\* width - length(show(x)) fillers.
C7_Theorem ==
    (pc = "done" /\ op \in {"show_fill_left", "show_fill_right"}) =>
        LET s == show(args.x)
            pad == Len(out) - Len(s)
        IN  /\ Len(out) = Max(args.min_size, Len(s))
            /\ Len(s) >= args.min_size => out = s
            /\ op = "show_fill_left" =>
                   /\ \A k \in 1..pad : out[k] = args.filler
                   /\ \A k \in 1..Len(s) : out[pad + k] = s[k]
            /\ op = "show_fill_right" =>
                   /\ \A k \in 1..Len(s) : out[k] = s[k]
                   /\ \A k \in 1..pad : out[Len(s) + k] = args.filler

C7_Witness ==
    /\ Done("show_fill_left")
    /\ args.x < 0
    /\ args.min_size = 4
    /\ Len(out) = 4
    /\ out[1] = args.filler
    /\ out[2] = args.filler
    /\ out[3] = "-"

\* C8: show_maybe is "Nothing" or "Just " + show(v); show_result is
\* "Error " + show(e) or "Ok " + show(v); the branch follows the tag alone.
C8_Theorem ==
    /\ Done("show_maybe") =>
           out = (IF args.maybe.tag = "nothing"
                  THEN <<"N", "o", "t", "h", "i", "n", "g">>
                  ELSE <<"J", "u", "s", "t", " ">> \o show(args.maybe.value))
    /\ Done("show_result") =>
           out = (IF args.result.tag = "error"
                  THEN <<"E", "r", "r", "o", "r", " ">>
                       \o show(args.result.value)
                  ELSE <<"O", "k", " ">> \o show(args.result.value))

C8_Witness ==
    /\ Done("show_result")
    /\ args.result.tag = "ok"
    /\ args.result.value < 0
    /\ out[1] = "O"

\* parts of a rendered number
SignLen(s) == IF Len(s) > 0 /\ s[1] = "-" THEN 1 ELSE 0
PointPos(s) ==
    IF Contains(s, ".") THEN CHOOSE k \in 1..Len(s) : s[k] = "."
    ELSE Len(s) + 1
IntPartLen(s) == PointPos(s) - 1 - SignLen(s)
IntPartIsDigits(s) ==
    \A k \in (SignLen(s) + 1)..(PointPos(s) - 1) : IsDigit(s[k])

\* C2 as stated: the integer part of show_float's result has at least
\* min_left_digits digits, the sign not counting.
C2_Original ==
    Done("show_float") =>
        /\ IntPartIsDigits(out)
        /\ IntPartLen(out) >= args.min_left_chars

\* C2 amended: the integer part (the digits between an optional '-' and the
\* decimal point, or the end of the text when there is no point) has at
\* least min_left_digits digits when x >= 0, and at least
\* min_left_digits - 1 digits when x < 0 and min_left_digits > 0: the '-'
\* takes one position of the requested width.
C2_Amended ==
    Done("show_float") =>
        /\ IntPartIsDigits(out)
        /\ IntPartLen(out) >=
               (IF LessThanZero(args.x) /\ args.min_left_chars > 0
                THEN args.min_left_chars - 1
                ELSE args.min_left_chars)

C2_Witness ==
    /\ Done("show_float")
    /\ LessThanZero(args.x)
    /\ args.min_left_chars = 3
    /\ args.right_char_count = 1
    /\ IntPartLen(out) = 2
    /\ out[2] = "0"

\* C3: the result of show_float always holds a decimal point followed by
\* exactly right_digits digits and nothing else, right_digits = 0 included.
C3_Claim ==
    Done("show_float") =>
        /\ Contains(out, ".")
        /\ PointPos(out) = Len(out) - args.right_char_count
        /\ \A k \in (PointPos(out) + 1)..Len(out) : IsDigit(out[k])

\* C5: show_float_fill_left is the unpadded fixed text of x ('-' directly
\* before the digits of abs(x), no zero-padding) preceded by as many fillers
\* as bring it to width; it is never shorter than show_float(0, right_digits).
C5_Theorem ==
    Done("show_float_fill_left") =>
        LET core == (IF LessThanZero(args.x) THEN <<"-">> ELSE <<>>)
                    \o FixedText(Abs(args.x), args.right_char_count)
            pad == Len(out) - Len(core)
        IN  /\ Len(out) = Max(args.min_size, Len(core))
            /\ \A k \in 1..pad : out[k] = args.filler
            /\ \A k \in 1..Len(core) : out[pad + k] = core[k]
            /\ Len(out) >= Len(show_float(0, args.right_char_count, args.x))

C5_Witness ==
    /\ Done("show_float_fill_left")
    /\ LessThanZero(args.x)
    /\ args.filler = " "
    /\ args.right_char_count = 0
    /\ args.min_size = 4
    /\ out[1] = " "
    /\ out[2] = " "
    /\ out[3] = "-"
    /\ IsDigit(out[4])

\* C9: for x < 0 and min_left_digits > 0 the text of abs(x) is zero-padded
\* to (min_left_digits - 1) + 1 + right_digits characters before '-' is
\* prepended, so the whole result is
\* max(min_left_digits + 1 + right_digits, 1 + length(text)) long; otherwise
\* the padding target is min_left_digits + 1 + right_digits.
C9_Theorem ==
    Done("show_float") =>
        LET m == args.min_left_chars
            p == args.right_char_count
            t == FixedText(Abs(args.x), p)
            neg == LessThanZero(args.x)
            target == IF neg /\ m > 0 THEN (m - 1) + 1 + p ELSE m + 1 + p
            sign == IF neg THEN 1 ELSE 0
            zeros == Len(out) - sign - Len(t)
        IN  /\ Len(out) = sign + Max(target, Len(t))
            /\ (neg /\ m > 0) => Len(out) = Max(m + 1 + p, 1 + Len(t))
            /\ \A k \in 1..zeros : out[sign + k] = "0"
            /\ \A k \in 1..Len(t) : out[sign + zeros + k] = t[k]

C9_Witness ==
    /\ Done("show_float")
    /\ LessThanZero(args.x)
    /\ args.min_left_chars = 4
    /\ args.right_char_count = 2
    /\ Len(out) = 7
    /\ Len(FixedText(Abs(args.x), 2)) = 4

\* C10: the result of show_float starts with '-' exactly when x < 0: a
\* negative x that rounds to zero keeps its sign before all-zero digits,
\* zero and negative zero have none, and no other '-' appears.
C10_Theorem ==
    Done("show_float") =>
        /\ (Len(out) > 0 /\ out[1] = "-") <=> LessThanZero(args.x)
        /\ \A k \in 2..Len(out) : out[k] # "-"
        /\ (args.x.num = 0) => ~Contains(out, "-")

C10_Witness ==
    /\ Done("show_float")
    /\ LessThanZero(args.x)
    /\ out[1] = "-"
    /\ \A k \in 2..Len(out) : out[k] \in {"0", "."}
    /\ Contains(out, ".")

====
